---- MODULE Spec2Model ----
(***************************************************************************)
(* Model of manim's render Manager (src/manim/renderer/render_manager.py): *)
(* the life cycle of one render() call, the play / wait sample loops, the  *)
(* frame advance with its wall-clock pacer, the interactive loop and the   *)
(* teardown.                                                               *)
(*                                                                         *)
(* Time is exact: one tick is 1/TicksPerSecond of a second, every frame    *)
(* rate divides TicksPerSecond, so 1/fps is a whole number of ticks and    *)
(* the arithmetic of np.arange is carried out over the rationals.  The     *)
(* rounding of IEEE doubles is not modelled.                               *)
(*                                                                         *)
(* The external collaborators (scene, renderer, window, file writer) are   *)
(* modelled by the calls the Manager makes on them: `log` holds the calls   *)
(* made by the current play / wait / interactive loop / teardown itself,   *)
(* `frame` the calls made by the body of the last _update_frame, `nFrames` *)
(* the number of _update_frame calls of the segment (catch-up frames       *)
(* included) and `calls` how often each teardown hook ran in the run.      *)
(***************************************************************************)
EXTENDS Integers, Sequences, FiniteSets, TLC

\* ---------------------------------------------------------------- bounds
\* Largest run time of an animation and largest wait duration, in ticks.
MaxRunTime == 3
\* Largest number of animations handed to one play call.
MaxAnims == 2
\* Largest number of play / wait calls the construct hook issues.
MaxOps == 2
\* Largest frame rate; the frame rates are 1..MaxFps.
MaxFps == 2
\* The wall clock is observed up to this many ticks.
MaxClock == 3
\* Largest number of zero-delta catch-up frames of one frame advance.
MaxCatchUp == 2
\* Largest number of iterations of the interactive loop.
MaxInteract == 2

RECURSIVE Factorial(_)
Factorial(n) == IF n <= 1 THEN 1 ELSE n * Factorial(n - 1)

\* A common multiple of all frame rates: the number of ticks in a second.
TicksPerSecond == Factorial(MaxFps)

FrameRates == 1..MaxFps

VARIABLES
    pc,                    \* where render() stands
    ret,                   \* where the running _update_frame returns to
    iret,                  \* where the running _interact returns to
    time,                  \* self.time
    virtual_animation_start_time,
    real_animation_start_time,
    clock,                 \* time.perf_counter()
    preview,               \* config.preview
    window,                \* self.window is not None
    is_closing,            \* self.window.is_closing
    closedAt,              \* iterations of the interactive loop begun when
                           \* is_closing became true
    ended_with_interrupt,  \* self.file_writer.ended_with_interrupt
    skip_animations,       \* self.scene.skip_animations
    fps,                   \* self.camera.fps
    save_last_frame,       \* config.save_last_frame
    animations,            \* the run times of the animations of the running play
    duration,              \* the duration of the running wait
    prog,                  \* the time progression the running loop iterates
    idx,                   \* the next element of prog
    last_t,                \* last_t of the running loop
    update_mobjects,       \* update_mobjects of the running wait
    has_condition,         \* stop_condition is not None in the running wait
    call,                  \* the construct hook's last call: play or wait
    ops,                   \* play / wait calls issued by construct so far
    plays,                 \* play calls issued by construct so far
    iters,                 \* iterations of the interactive loop so far
    nCatch,                \* catch-up frames of the running frame advance
    time0,                 \* self.time when the current segment began
    clock0,                \* time.perf_counter() when the running play / wait
                           \* began with a window bound
    outcome,               \* how the construct hook ended
    log,                   \* calls made in the current segment of the run
    frame,                 \* calls made by the last body of _update_frame
    nFrames,               \* _update_frame calls of the current segment
    calls                  \* how often each teardown hook ran

vars == << pc, ret, iret, time, virtual_animation_start_time,
           real_animation_start_time, clock, preview, window, is_closing,
           closedAt, ended_with_interrupt, skip_animations, fps,
           save_last_frame,
           animations, duration, prog, idx, last_t, update_mobjects,
           has_condition, call, ops, plays, iters, nCatch, time0, clock0,
           outcome, log, frame, nFrames, calls >>

\* ------------------------------------------------------------- helpers
\* One call made on a collaborator: op is the method, src the call site
\* (for update_frame), t and dt its arguments (0 where it has none).
Ev(op, src, t, dt) == [op |-> op, src |-> src, t |-> t, dt |-> dt]

RECURSIVE SeqMax(_)
SeqMax(s) ==
    IF Len(s) = 1 THEN s[1]
    ELSE LET m == SeqMax(Tail(s)) IN IF s[1] >= m THEN s[1] ELSE m

\* 1 / self.camera.fps, in ticks.
FrameStep == TicksPerSecond \div fps

\* Mutant of calc_time_progression: the end point run_time is included.
calc_time_progression_inclusive(run_time) ==
    LET step == FrameStep
        n == IF run_time < 0 THEN 0 ELSE run_time \div step + 1
    IN [i \in 1..n |-> (i - 1) * step]

\* np.arange(0, run_time, 1 / fps): ceil(run_time / step) values (none when
\* that is not positive), the i-th being 0 + i * step.
calc_time_progression(run_time) ==
    LET step == FrameStep
        n == IF run_time <= 0 THEN 0 ELSE (run_time + step - 1) \div step
    IN [i \in 1..n |-> (i - 1) * step]

\* Mutant of calc_runtime: the run time of the first animation only.
calc_runtime_first(anims) == anims[1]

\* max(animation.get_run_time() for animation in animations)
calc_runtime(anims) == SeqMax(anims)

\* Mutant of FrameCalls: the snapshot is taken before the objects are
\* updated.
FrameCalls_snapshot_first(src, dt, id, ok) ==
    << Ev("time", src, 0, dt), Ev("get_state", src, id, 0),
       Ev("update_mobjects", src, 0, dt) >>
      \o (IF window THEN << Ev("clear", src, 0, 0) >> ELSE << >>)
      \o << Ev("render", src, id, 0) >>
      \o (IF window /\ ok THEN << Ev("swap_buffers", src, 0, 0) >> ELSE << >>)

\* The calls of one body of _update_frame(dt) made from `src`, up to the
\* pacer check; id numbers the snapshot get_state returns.  When the
\* renderer raises (~ok) the body ends there.
FrameCalls(src, dt, id, ok) ==
    << Ev("time", src, 0, dt), Ev("update_mobjects", src, 0, dt) >>
      \o (IF window THEN << Ev("clear", src, 0, 0) >> ELSE << >>)
      \o << Ev("get_state", src, id, 0), Ev("render", src, id, 0) >>
      \o (IF window /\ ok THEN << Ev("swap_buffers", src, 0, 0) >> ELSE << >>)

\* Mutant of update_frame: self.time = dt instead of self.time += dt.
update_frame_assigns(l, n, src, dt, cont, ok) ==
    /\ time' = dt
    /\ frame' = FrameCalls(src, dt, n, ok)
    /\ nFrames' = n
    /\ IF ~ok
       THEN /\ pc' = "raised"
            /\ log' = << Ev("error", src, 0, 0) >>
            /\ ret' = "none"
            /\ nCatch' = 0
       ELSE /\ log' = (IF src = "pacer" THEN l
                       ELSE Append(l, Ev("update_frame", src, 0, dt)))
            /\ IF window
               THEN /\ pc' = "pacer"
                    /\ ret' = cont
                    /\ nCatch' = (IF src = "pacer" THEN nCatch + 1 ELSE 0)
               ELSE pc' = cont /\ ret' = "none" /\ nCatch' = 0

\* Mutant of update_frame: the pacer check is made whether or not a window is
\* bound.
update_frame_always_paces(l, n, src, dt, cont, ok) ==
    /\ time' = time + dt
    /\ frame' = FrameCalls(src, dt, n, ok)
    /\ nFrames' = n
    /\ IF ~ok
       THEN /\ pc' = "raised"
            /\ log' = << Ev("error", src, 0, 0) >>
            /\ ret' = "none"
            /\ nCatch' = 0
       ELSE /\ log' = (IF src = "pacer" THEN l
                       ELSE Append(l, Ev("update_frame", src, 0, dt)))
            /\ pc' = "pacer"
            /\ ret' = cont
            /\ nCatch' = (IF src = "pacer" THEN nCatch + 1 ELSE 0)

\* Mutant of update_frame: a failure of the renderer is caught like an early
\* stop and render() goes on to the teardown.
update_frame_error_caught(l, n, src, dt, cont, ok) ==
    /\ time' = time + dt
    /\ frame' = FrameCalls(src, dt, n, ok)
    /\ nFrames' = n
    /\ IF ~ok
       THEN /\ pc' = (IF src = "tear_down" \/ cont = "finish"
                      THEN "raised" ELSE "tear_down")
            /\ log' = << Ev("error", src, 0, 0) >>
            /\ ret' = "none"
            /\ nCatch' = 0
       ELSE /\ log' = (IF src = "pacer" THEN l
                       ELSE Append(l, Ev("update_frame", src, 0, dt)))
            /\ IF window
               THEN /\ pc' = "pacer"
                    /\ ret' = cont
                    /\ nCatch' = (IF src = "pacer" THEN nCatch + 1 ELSE 0)
               ELSE pc' = cont /\ ret' = "none" /\ nCatch' = 0

\* _update_frame(dt) up to the pacer check, called from `src` after the
\* calls l of the segment, of which it is the n-th frame; `cont` is where
\* the caller goes on.  With a window bound the pacer check follows (action
\* pacer); without, the call is over.  `ok` is whether the renderer's render
\* returns: when it raises, the error leaves render().
update_frame(l, n, src, dt, cont, ok) ==
    /\ time' = time + dt
    /\ frame' = FrameCalls(src, dt, n, ok)
    /\ nFrames' = n
    /\ IF ~ok
       THEN /\ pc' = "raised"
            /\ log' = << Ev("error", src, 0, 0) >>
            /\ ret' = "none"
            /\ nCatch' = 0
       ELSE /\ log' = (IF src = "pacer" THEN l
                       ELSE Append(l, Ev("update_frame", src, 0, dt)))
            /\ IF window
               THEN /\ pc' = "pacer"
                    /\ ret' = cont
                    /\ nCatch' = (IF src = "pacer" THEN nCatch + 1 ELSE 0)
               ELSE pc' = cont /\ ret' = "none" /\ nCatch' = 0

AnimationSets ==
    UNION { [1..n -> 0..MaxRunTime] : n \in 0..MaxAnims }

\* ---------------------------------------------------------------- Init
\* The state after Manager.__init__: time is 0, the window exists exactly in
\* preview mode.  The two anchors are set by _setup before they are read.
Init ==
    /\ pc = "init"
    /\ ret = "none"
    /\ iret = "none"
    /\ time = 0
    /\ virtual_animation_start_time = 0
    /\ real_animation_start_time = 0
    /\ clock = 0
    /\ preview \in BOOLEAN
    /\ window = preview
    /\ is_closing = FALSE
    /\ closedAt = 0
    /\ ended_with_interrupt = FALSE
    /\ skip_animations \in BOOLEAN
    /\ fps \in FrameRates
    /\ save_last_frame \in BOOLEAN
    /\ animations = << >>
    /\ duration = 0
    /\ prog = << >>
    /\ idx = 1
    /\ last_t = 0
    /\ update_mobjects = FALSE
    /\ has_condition = FALSE
    /\ call = "none"
    /\ ops = 0
    /\ plays = 0
    /\ iters = 0
    /\ nCatch = 0
    /\ time0 = 0
    /\ clock0 = 0
    /\ outcome = "running"
    /\ log = << >>
    /\ frame = << >>
    /\ nFrames = 0
    /\ calls = [tear_down |-> 0, finish |-> 0, close |-> 0]

\* The locations of render() that lie inside the try block of
\* _render_first_pass: the construct hook and the _interact call after it
\* (the one that returns to _tear_down).
InTry(p) ==
    p \in {"construct", "play_loop", "play_finish", "wait_loop", "wait_cond",
           "post_play", "interact"}

\* ------------------------------------------------------------- actions
\* render -> _render_first_pass -> _setup
setup ==
    /\ pc = "init"
    /\ virtual_animation_start_time' = 0
    /\ real_animation_start_time' = clock
    /\ log' = << Ev("setup", "setup", 0, 0) >>
    /\ pc' = "construct"
    /\ UNCHANGED << ret, iret, time, clock, window, is_closing,
                    ended_with_interrupt, skip_animations, fps, plays, preview, closedAt,
                    save_last_frame, animations, duration, prog, idx, last_t,
                    update_mobjects, has_condition, call, ops, iters, nCatch,
                    time0, outcome, frame, nFrames, calls, clock0 >>

\* The wall clock advances (environment).
Tick ==
    /\ pc \notin {"done", "raised"}
    /\ clock < MaxClock
    /\ clock' = clock + 1
    /\ UNCHANGED << pc, ret, iret, time, virtual_animation_start_time,
                    real_animation_start_time, window, is_closing,
                    ended_with_interrupt, skip_animations, fps, plays, preview, closedAt,
                    save_last_frame, animations, duration, prog, idx, last_t,
                    update_mobjects, has_condition, call, ops, iters, nCatch,
                    time0, outcome, log, frame, nFrames, calls, clock0 >>

\* The user asks the window to close (environment).  Only the loop test of
\* _interact reads is_closing, so a signal raised before that loop begins is
\* taken as raised when it begins.
close_signal ==
    /\ pc = "interact" \/ (pc = "pacer" /\ ret = "interact")
    /\ window
    /\ ~is_closing
    /\ is_closing' = TRUE
    /\ closedAt' = iters
    /\ UNCHANGED << pc, ret, iret, time, virtual_animation_start_time,
                    real_animation_start_time, clock, window,
                    ended_with_interrupt, skip_animations, fps, plays, preview,
                    save_last_frame, animations, duration, prog, idx, last_t,
                    update_mobjects, has_condition, call, ops, iters, nCatch,
                    time0, outcome, log, frame, nFrames, calls, clock0 >>

\* The construct hook calls play(*anims): _play up to the sample loop of
\* _progress_through_animations.  max() of no animations raises.
play(anims) ==
    /\ pc = "construct"
    /\ ops < MaxOps
    /\ ops' = ops + 1
    /\ plays' = plays + 1
    /\ call' = "play"
    /\ animations' = anims
    /\ time0' = time
    /\ clock0' = (IF window THEN clock ELSE 0)
    /\ log' = << Ev("pre_play", "play", 0, 0) >>
                 \o (IF window THEN << Ev("perf_counter", "play", 0, 0) >>
                     ELSE << >>)
                 \o << Ev("begin_animations", "play", 0, 0) >>
    /\ nFrames' = 0
    /\ frame' = << >>
    /\ IF window
       THEN /\ real_animation_start_time' = clock
            /\ virtual_animation_start_time' = time
       ELSE UNCHANGED << real_animation_start_time,
                         virtual_animation_start_time >>
    /\ IF anims = << >>
       THEN /\ pc' = "raised"
            /\ outcome' = "error"
            /\ UNCHANGED << prog, idx, last_t >>
       ELSE /\ pc' = "play_loop"
            /\ prog' = calc_time_progression(calc_runtime(anims))
            /\ idx' = 1
            /\ last_t' = 0
            /\ UNCHANGED outcome
    /\ UNCHANGED << ret, iret, time, clock, window, is_closing,
                    ended_with_interrupt, skip_animations, fps, preview, closedAt,
                    save_last_frame, duration, update_mobjects,
                    has_condition, iters, nCatch, calls >>

\* Mutant of progress_through_animations: _update_frame(t) instead of
\* _update_frame(dt).
progress_through_animations_t(ok) ==
    /\ pc = "play_loop"
    /\ idx <= Len(prog)
    /\ LET t == prog[idx]
           dt == t - last_t
       IN /\ last_t' = t
          /\ idx' = idx + 1
          /\ update_frame(Append(log, Ev("update_animations", "play", t, dt)),
                          nFrames + 1, "play", t, "play_loop", ok)
    /\ outcome' = (IF ok THEN outcome ELSE "error")
    /\ UNCHANGED << iret, virtual_animation_start_time,
                    real_animation_start_time, clock, window, is_closing,
                    ended_with_interrupt, skip_animations, fps, plays, preview, closedAt,
                    save_last_frame, animations, duration, prog,
                    update_mobjects, has_condition, call, ops, iters, time0,
                    calls, clock0 >>

\* One iteration of the loop of _progress_through_animations.
progress_through_animations(ok) ==
    /\ pc = "play_loop"
    /\ idx <= Len(prog)
    /\ LET t == prog[idx]
           dt == t - last_t
       IN /\ last_t' = t
          /\ idx' = idx + 1
          /\ update_frame(Append(log, Ev("update_animations", "play", t, dt)),
                          nFrames + 1, "play", dt, "play_loop", ok)
    /\ outcome' = (IF ok THEN outcome ELSE "error")
    /\ UNCHANGED << iret, virtual_animation_start_time,
                    real_animation_start_time, clock, window, is_closing,
                    ended_with_interrupt, skip_animations, fps, plays, preview, closedAt,
                    save_last_frame, animations, duration, prog,
                    update_mobjects, has_condition, call, ops, iters, time0,
                    calls, clock0 >>

\* Mutant of play_finish: the frame is forced whenever animations are
\* skipped, window or no window.
play_finish_unbound(ok) ==
    /\ pc = "play_loop"
    /\ idx > Len(prog)
    /\ LET l == Append(log, Ev("finish_animations", "play", 0, 0))
       IN IF skip_animations
          THEN /\ update_frame(l, nFrames + 1, "skip", 0, "post_play", ok)
               /\ outcome' = (IF ok THEN outcome ELSE "error")
          ELSE /\ ok
               /\ log' = l
               /\ pc' = "post_play"
               /\ UNCHANGED << time, ret, nCatch, outcome, frame, nFrames >>
    /\ UNCHANGED << iret, virtual_animation_start_time,
                    real_animation_start_time, clock, window, is_closing,
                    ended_with_interrupt, skip_animations, fps, plays, preview, closedAt,
                    save_last_frame, animations, duration, prog, idx, last_t,
                    update_mobjects, has_condition, call, ops, iters, time0,
                    calls, clock0 >>

\* _play after the loop: finish_animations and the frame forced when
\* animations are skipped and a window is bound.
play_finish(ok) ==
    /\ pc = "play_loop"
    /\ idx > Len(prog)
    /\ LET l == Append(log, Ev("finish_animations", "play", 0, 0))
       IN IF skip_animations /\ window
          THEN /\ update_frame(l, nFrames + 1, "skip", 0, "post_play", ok)
               /\ outcome' = (IF ok THEN outcome ELSE "error")
          ELSE /\ ok
               /\ log' = l
               /\ pc' = "post_play"
               /\ UNCHANGED << time, ret, nCatch, outcome, frame, nFrames >>
    /\ UNCHANGED << iret, virtual_animation_start_time,
                    real_animation_start_time, clock, window, is_closing,
                    ended_with_interrupt, skip_animations, fps, plays, preview, closedAt,
                    save_last_frame, animations, duration, prog, idx, last_t,
                    update_mobjects, has_condition, call, ops, iters, time0,
                    calls, clock0 >>

\* The last statement of _play and of _wait; the call returns to construct
\* and its locals are gone.  A new segment of the log begins.
post_play ==
    /\ pc = "post_play"
    /\ log' = << Ev("post_play", call, 0, 0) >>
    /\ nFrames' = 0
    /\ frame' = << >>
    /\ pc' = "construct"
    /\ time0' = 0
    /\ clock0' = 0
    /\ animations' = << >>
    /\ duration' = 0
    /\ prog' = << >>
    /\ idx' = 1
    /\ last_t' = 0
    /\ update_mobjects' = FALSE
    /\ has_condition' = FALSE
    /\ UNCHANGED << ret, iret, time, virtual_animation_start_time,
                    real_animation_start_time, clock, window, is_closing,
                    ended_with_interrupt, skip_animations, fps, plays, preview, closedAt,
                    save_last_frame, call, ops, iters, nCatch, outcome,
                    calls >>

\* The construct hook calls wait(d, stop_condition=...): _wait up to its loop.
\* upd is what scene.should_update_mobjects() answers.
wait(d, cond, upd) ==
    /\ pc = "construct"
    /\ ops < MaxOps
    /\ ops' = ops + 1
    /\ call' = "wait"
    /\ duration' = d
    /\ has_condition' = cond
    /\ update_mobjects' = upd
    /\ time0' = time
    /\ clock0' = (IF window THEN clock ELSE 0)
    /\ log' = << Ev("pre_play", "wait", 0, 0),
                 Ev("should_update_mobjects", "wait", IF upd THEN 1 ELSE 0, 0) >>
    /\ nFrames' = 0
    /\ frame' = << >>
    /\ prog' = calc_time_progression(d)
    /\ idx' = 1
    /\ last_t' = 0
    /\ pc' = "wait_loop"
    /\ UNCHANGED << ret, iret, time, virtual_animation_start_time,
                    real_animation_start_time, clock, window, is_closing,
                    ended_with_interrupt, skip_animations, fps, plays, preview, closedAt,
                    save_last_frame, animations, iters, nCatch, outcome,
                    calls >>

\* Mutant of wait_step: a frame is advanced whatever should_update_mobjects
\* answered.
wait_step_always_frames(ok) ==
    /\ pc = "wait_loop"
    /\ idx <= Len(prog)
    /\ idx' = idx + 1
    /\ IF update_mobjects \/ TRUE
       THEN LET t == prog[idx]
                dt == t - last_t
            IN /\ last_t' = t
               /\ update_frame(log, nFrames + 1, "wait", dt, "wait_cond", ok)
               /\ outcome' = (IF ok THEN outcome ELSE "error")
       ELSE /\ ok
            /\ log' = Append(log, Ev("render_previous", "wait", 0, 0))
            /\ UNCHANGED << pc, ret, nCatch, time, last_t, outcome, frame,
                            nFrames >>
    /\ UNCHANGED << iret, virtual_animation_start_time,
                    real_animation_start_time, clock, window, is_closing,
                    ended_with_interrupt, skip_animations, fps, plays, preview, closedAt,
                    save_last_frame, animations, duration, prog,
                    update_mobjects, has_condition, call, ops, iters, time0,
                    calls, clock0 >>

\* One iteration of the loop of _wait, up to the evaluation of condition().
wait_step(ok) ==
    /\ pc = "wait_loop"
    /\ idx <= Len(prog)
    /\ idx' = idx + 1
    /\ IF update_mobjects
       THEN LET t == prog[idx]
                dt == t - last_t
            IN /\ last_t' = t
               /\ update_frame(log, nFrames + 1, "wait", dt, "wait_cond", ok)
               /\ outcome' = (IF ok THEN outcome ELSE "error")
       ELSE /\ ok
            /\ log' = Append(log, Ev("render_previous", "wait", 0, 0))
            /\ UNCHANGED << pc, ret, nCatch, time, last_t, outcome, frame,
                            nFrames >>
    /\ UNCHANGED << iret, virtual_animation_start_time,
                    real_animation_start_time, clock, window, is_closing,
                    ended_with_interrupt, skip_animations, fps, plays, preview, closedAt,
                    save_last_frame, animations, duration, prog,
                    update_mobjects, has_condition, call, ops, iters, time0,
                    calls, clock0 >>

\* Mutant of wait_cond: a true condition does not leave the loop.
wait_cond_no_break(c) ==
    /\ pc = "wait_cond"
    /\ has_condition \/ ~c
    /\ log' = Append(log, Ev("condition",
                             IF has_condition THEN "stop_condition" ELSE "default",
                             IF c THEN 1 ELSE 0, 0))
    /\ pc' = "wait_loop"
    /\ UNCHANGED << ret, iret, time, virtual_animation_start_time,
                    real_animation_start_time, clock, window, is_closing,
                    ended_with_interrupt, skip_animations, fps, plays, preview, closedAt,
                    save_last_frame, animations, duration, prog, idx, last_t,
                    update_mobjects, has_condition, call, ops, iters, nCatch,
                    time0, outcome, frame, nFrames, calls, clock0 >>

\* condition() after a frame of _wait: stop_condition's answer c, or the
\* default lambda's False; True breaks out of the loop.
wait_cond(c) ==
    /\ pc = "wait_cond"
    /\ has_condition \/ ~c
    /\ log' = Append(log, Ev("condition",
                             IF has_condition THEN "stop_condition" ELSE "default",
                             IF c THEN 1 ELSE 0, 0))
    /\ pc' = (IF c THEN "post_play" ELSE "wait_loop")
    /\ UNCHANGED << ret, iret, time, virtual_animation_start_time,
                    real_animation_start_time, clock, window, is_closing,
                    ended_with_interrupt, skip_animations, fps, plays, preview, closedAt,
                    save_last_frame, animations, duration, prog, idx, last_t,
                    update_mobjects, has_condition, call, ops, iters, nCatch,
                    time0, outcome, frame, nFrames, calls, clock0 >>

\* The loop of _wait is exhausted.
wait_finish ==
    /\ pc = "wait_loop"
    /\ idx > Len(prog)
    /\ pc' = "post_play"
    /\ UNCHANGED << ret, iret, time, virtual_animation_start_time,
                    real_animation_start_time, clock, window, is_closing,
                    ended_with_interrupt, skip_animations, fps, plays, preview, closedAt,
                    save_last_frame, animations, duration, prog, idx, last_t,
                    update_mobjects, has_condition, call, ops, iters, nCatch,
                    time0, outcome, log, frame, nFrames, calls, clock0 >>

\* Mutant of pacer: the frame advance returns without comparing the elapsed
\* times.
pacer_returns_at_once(ok) ==
    /\ pc = "pacer"
    /\ ok
    /\ pc' = ret
    /\ ret' = "none"
    /\ nCatch' = 0
    /\ UNCHANGED << time, log, outcome, frame, nFrames >>
    /\ UNCHANGED << iret, virtual_animation_start_time,
                    real_animation_start_time, clock, window, is_closing,
                    ended_with_interrupt, skip_animations, fps, plays, preview, closedAt,
                    save_last_frame, animations, duration, prog, idx, last_t,
                    update_mobjects, has_condition, call, ops, iters, time0,
                    calls, clock0 >>

\* Mutant of pacer: a catch-up frame is issued when the real time elapsed
\* equals the virtual time elapsed, too.
pacer_not_strict(ok) ==
    /\ pc = "pacer"
    /\ LET vt == time - virtual_animation_start_time
           rt == clock - real_animation_start_time
       IN IF rt <= vt
          THEN /\ nCatch < MaxCatchUp
               /\ update_frame(log, nFrames + 1, "pacer", 0, ret, ok)
               /\ outcome' = (IF ok THEN outcome ELSE "error")
          ELSE /\ ok
               /\ pc' = ret
               /\ ret' = "none"
               /\ nCatch' = 0
               /\ UNCHANGED << time, log, outcome, frame, nFrames >>
    /\ UNCHANGED << iret, virtual_animation_start_time,
                    real_animation_start_time, clock, window, is_closing,
                    ended_with_interrupt, skip_animations, fps, plays, preview, closedAt,
                    save_last_frame, animations, duration, prog, idx, last_t,
                    update_mobjects, has_condition, call, ops, iters, time0,
                    calls, clock0 >>

\* The pacer check that ends _update_frame when a window is bound: one more
\* _update_frame(0) while the real time elapsed is less than the virtual.
pacer(ok) ==
    /\ pc = "pacer"
    /\ LET vt == time - virtual_animation_start_time
           rt == clock - real_animation_start_time
       IN IF rt < vt
          THEN /\ nCatch < MaxCatchUp
               /\ update_frame(log, nFrames + 1, "pacer", 0, ret, ok)
               /\ outcome' = (IF ok THEN outcome ELSE "error")
          ELSE /\ ok
               /\ pc' = ret
               /\ ret' = "none"
               /\ nCatch' = 0
               /\ UNCHANGED << time, log, outcome, frame, nFrames >>
    /\ UNCHANGED << iret, virtual_animation_start_time,
                    real_animation_start_time, clock, window, is_closing,
                    ended_with_interrupt, skip_animations, fps, plays, preview, closedAt,
                    save_last_frame, animations, duration, prog, idx, last_t,
                    update_mobjects, has_condition, call, ops, iters, time0,
                    calls, clock0 >>

\* Mutant of interact_begin: the early return tests config.preview instead
\* of self.window.
interact_begin_by_preview(l, back) ==
    IF ~preview
    THEN /\ pc' = back
         /\ log' = l
         /\ UNCHANGED << iret, skip_animations, nFrames, frame, time0 >>
    ELSE /\ pc' = "interact"
         /\ iret' = back
         /\ time0' = time
         /\ skip_animations' = FALSE
         /\ nFrames' = 0
         /\ frame' = << >>
         /\ log' = Append(l, Ev("refresh_static_mobjects", "interact", 0, 0))

\* _interact up to its loop, called after the calls l, returning to `back`.
\* time0 keeps self.time as the loop begins.
interact_begin(l, back) ==
    IF ~window
    THEN /\ pc' = back
         /\ log' = l
         /\ UNCHANGED << iret, skip_animations, nFrames, frame, time0 >>
    ELSE /\ pc' = "interact"
         /\ iret' = back
         /\ time0' = time
         /\ skip_animations' = FALSE
         /\ nFrames' = 0
         /\ frame' = << >>
         /\ log' = Append(l, Ev("refresh_static_mobjects", "interact", 0, 0))

\* The construct hook returns; _render_first_pass calls _interact.
construct_returns ==
    /\ pc = "construct"
    /\ outcome' = "normal"
    /\ interact_begin(<< >>, "tear_down")
    /\ UNCHANGED << ret, time, virtual_animation_start_time,
                    real_animation_start_time, clock, window, is_closing,
                    ended_with_interrupt, fps, plays, preview, closedAt, save_last_frame, animations,
                    duration, prog, idx, last_t, update_mobjects,
                    has_condition, call, ops, iters, nCatch, calls, clock0 >>

\* Mutant of interact: the loop tests is_closing after its body (do-while).
interact_tests_after(ok) ==
    /\ pc = "interact"
    /\ IF is_closing /\ iters > 0
       THEN /\ ok
            /\ pc' = iret
            /\ iret' = "none"
            /\ UNCHANGED << ret, time, log, nCatch, iters, outcome, frame,
                            nFrames >>
       ELSE /\ iters < MaxInteract
            /\ iters' = iters + 1
            /\ update_frame(log, nFrames + 1, "interact", FrameStep,
                            "interact", ok)
            /\ outcome' = (IF ok THEN outcome ELSE "error")
            /\ UNCHANGED iret
    /\ UNCHANGED << virtual_animation_start_time,
                    real_animation_start_time, clock, window, is_closing,
                    ended_with_interrupt, skip_animations, fps, plays, preview, closedAt,
                    save_last_frame, animations, duration, prog, idx, last_t,
                    update_mobjects, has_condition, call, ops, time0, calls, clock0 >>

\* One test of the while loop of _interact, and its body.
interact(ok) ==
    /\ pc = "interact"
    /\ IF is_closing
       THEN /\ ok
            /\ pc' = iret
            /\ iret' = "none"
            /\ UNCHANGED << ret, time, log, nCatch, iters, outcome, frame,
                            nFrames >>
       ELSE /\ iters < MaxInteract
            /\ iters' = iters + 1
            /\ update_frame(log, nFrames + 1, "interact", FrameStep,
                            "interact", ok)
            /\ outcome' = (IF ok THEN outcome ELSE "error")
            /\ UNCHANGED iret
    /\ UNCHANGED << virtual_animation_start_time,
                    real_animation_start_time, clock, window, is_closing,
                    ended_with_interrupt, skip_animations, fps, plays, preview, closedAt,
                    save_last_frame, animations, duration, prog, idx, last_t,
                    update_mobjects, has_condition, call, ops, time0, calls, clock0 >>

\* Mutant of end_scene_early: _interact runs after the early stop too.
end_scene_early_interacts ==
    /\ pc = "construct"
    /\ outcome' = "early"
    /\ interact_begin(<< >>, "tear_down")
    /\ UNCHANGED << ret, time, virtual_animation_start_time,
                    real_animation_start_time, clock, window, is_closing,
                    ended_with_interrupt, fps, plays, preview, closedAt,
                    save_last_frame, animations, duration, prog, idx, last_t,
                    update_mobjects, has_condition, call, ops, iters, nCatch,
                    calls, clock0 >>

\* Mutant of end_scene_early: the early stop is handled by the interrupt's
\* handler.
end_scene_early_flagged ==
    /\ pc = "construct"
    /\ outcome' = "early"
    /\ pc' = "tear_down"
    /\ ended_with_interrupt' = TRUE
    /\ log' = << >>
    /\ nFrames' = 0
    /\ frame' = << >>
    /\ UNCHANGED << ret, iret, time, virtual_animation_start_time,
                    real_animation_start_time, clock, window, is_closing,
                    skip_animations, fps, plays, preview, closedAt,
                    save_last_frame, animations, duration, prog, idx, last_t,
                    update_mobjects, has_condition, call, ops, iters, nCatch,
                    time0, calls, clock0 >>

\* The construct hook raises EndSceneEarlyException: caught, on to teardown.
end_scene_early ==
    /\ pc = "construct"
    /\ outcome' = "early"
    /\ pc' = "tear_down"
    /\ log' = << >>
    /\ nFrames' = 0
    /\ frame' = << >>
    /\ UNCHANGED << ret, iret, time, virtual_animation_start_time,
                    real_animation_start_time, clock, window, is_closing,
                    ended_with_interrupt, skip_animations, fps, plays, preview, closedAt,
                    save_last_frame, animations, duration, prog, idx, last_t,
                    update_mobjects, has_condition, call, ops, iters, nCatch,
                    time0, calls, clock0 >>

\* Mutant of keyboard_interrupt: the handler does not set the flag.
keyboard_interrupt_unflagged ==
    /\ InTry(pc) \/ (pc = "pacer" /\ InTry(ret))
    /\ (pc = "interact" \/ ret = "interact") => iret = "tear_down"
    /\ ended_with_interrupt' = ended_with_interrupt
    /\ outcome' = (IF outcome = "running" THEN "interrupt" ELSE outcome)
    /\ pc' = "tear_down"
    /\ ret' = "none"
    /\ iret' = "none"
    /\ nCatch' = 0
    /\ time0' = 0
    /\ clock0' = 0
    /\ animations' = << >>
    /\ duration' = 0
    /\ prog' = << >>
    /\ idx' = 1
    /\ last_t' = 0
    /\ update_mobjects' = FALSE
    /\ has_condition' = FALSE
    /\ log' = << >>
    /\ nFrames' = 0
    /\ frame' = << >>
    /\ UNCHANGED << time, virtual_animation_start_time,
                    real_animation_start_time, clock, window, is_closing,
                    skip_animations, fps, plays, preview, closedAt, save_last_frame, call, ops, iters,
                    calls >>

\* KeyboardInterrupt inside the try block of _render_first_pass: the calls in
\* progress are unwound (their locals are gone), the handler sets the flag.
keyboard_interrupt ==
    /\ InTry(pc) \/ (pc = "pacer" /\ InTry(ret))
    /\ (pc = "interact" \/ ret = "interact") => iret = "tear_down"
    /\ ended_with_interrupt' = TRUE
    /\ outcome' = (IF outcome = "running" THEN "interrupt" ELSE outcome)
    /\ pc' = "tear_down"
    /\ ret' = "none"
    /\ iret' = "none"
    /\ nCatch' = 0
    /\ time0' = 0
    /\ clock0' = 0
    /\ animations' = << >>
    /\ duration' = 0
    /\ prog' = << >>
    /\ idx' = 1
    /\ last_t' = 0
    /\ update_mobjects' = FALSE
    /\ has_condition' = FALSE
    /\ log' = << >>
    /\ nFrames' = 0
    /\ frame' = << >>
    /\ UNCHANGED << time, virtual_animation_start_time,
                    real_animation_start_time, clock, window, is_closing,
                    skip_animations, fps, plays, preview, closedAt, save_last_frame, call, ops, iters,
                    calls >>

\* Mutant of tear_down: the last frame is advanced whatever the
\* configuration says.
tear_down_always_frame(ok) ==
    /\ pc = "tear_down"
    /\ calls' = [calls EXCEPT !.tear_down = @ + 1]
    /\ time0' = time
    /\ LET l == << Ev("tear_down", "tear_down", 0, 0) >>
       IN IF save_last_frame \/ TRUE
          THEN /\ update_frame(l, 1, "tear_down", 0, "finish", ok)
               /\ outcome' = (IF ok THEN outcome ELSE "error")
          ELSE /\ ok
               /\ log' = l
               /\ pc' = "finish"
               /\ nFrames' = 0
               /\ frame' = << >>
               /\ UNCHANGED << ret, time, nCatch, outcome >>
    /\ UNCHANGED << iret, virtual_animation_start_time,
                    real_animation_start_time, clock, window, is_closing,
                    ended_with_interrupt, skip_animations, fps, plays, preview, closedAt,
                    save_last_frame, animations, duration, prog, idx, last_t,
                    update_mobjects, has_condition, call, ops, iters, clock0 >>

\* _tear_down up to file_writer.finish().
tear_down(ok) ==
    /\ pc = "tear_down"
    /\ calls' = [calls EXCEPT !.tear_down = @ + 1]
    /\ time0' = time
    /\ LET l == << Ev("tear_down", "tear_down", 0, 0) >>
       IN IF save_last_frame
          THEN /\ update_frame(l, 1, "tear_down", 0, "finish", ok)
               /\ outcome' = (IF ok THEN outcome ELSE "error")
          ELSE /\ ok
               /\ log' = l
               /\ pc' = "finish"
               /\ nFrames' = 0
               /\ frame' = << >>
               /\ UNCHANGED << ret, time, nCatch, outcome >>
    /\ UNCHANGED << iret, virtual_animation_start_time,
                    real_animation_start_time, clock, window, is_closing,
                    ended_with_interrupt, skip_animations, fps, plays, preview, closedAt,
                    save_last_frame, animations, duration, prog, idx, last_t,
                    update_mobjects, has_condition, call, ops, iters, clock0 >>

\* Mutant of finish: the window is closed but the handle is kept.
finish_keeps_window ==
    /\ pc = "finish"
    /\ pc' = "second_pass"
    /\ IF window
       THEN /\ log' = log \o << Ev("finish", "tear_down", 0, 0),
                                Ev("close", "tear_down", 0, 0) >>
            /\ calls' = [calls EXCEPT !.finish = @ + 1, !.close = @ + 1]
            /\ window' = window
       ELSE /\ log' = Append(log, Ev("finish", "tear_down", 0, 0))
            /\ calls' = [calls EXCEPT !.finish = @ + 1]
            /\ UNCHANGED window
    /\ UNCHANGED << ret, iret, time, virtual_animation_start_time,
                    real_animation_start_time, clock, is_closing,
                    ended_with_interrupt, skip_animations, fps, plays, preview, closedAt,
                    save_last_frame, animations, duration, prog, idx, last_t,
                    update_mobjects, has_condition, call, ops, iters, nCatch,
                    time0, outcome, frame, nFrames, clock0 >>

\* The rest of _tear_down: file_writer.finish(), window.close(), release.
finish ==
    /\ pc = "finish"
    /\ pc' = "second_pass"
    /\ IF window
       THEN /\ log' = log \o << Ev("finish", "tear_down", 0, 0),
                                Ev("close", "tear_down", 0, 0) >>
            /\ calls' = [calls EXCEPT !.finish = @ + 1, !.close = @ + 1]
            /\ window' = FALSE
       ELSE /\ log' = Append(log, Ev("finish", "tear_down", 0, 0))
            /\ calls' = [calls EXCEPT !.finish = @ + 1]
            /\ UNCHANGED window
    /\ UNCHANGED << ret, iret, time, virtual_animation_start_time,
                    real_animation_start_time, clock, is_closing,
                    ended_with_interrupt, skip_animations, fps, plays, preview, closedAt,
                    save_last_frame, animations, duration, prog, idx, last_t,
                    update_mobjects, has_condition, call, ops, iters, nCatch,
                    time0, outcome, frame, nFrames, clock0 >>

\* render after the first pass: _render_second_pass (empty) and _interact.
render_rest ==
    /\ pc = "second_pass"
    /\ interact_begin(log, "done")
    /\ UNCHANGED << ret, time, virtual_animation_start_time,
                    real_animation_start_time, clock, window, is_closing,
                    ended_with_interrupt, fps, plays, preview, closedAt, save_last_frame, animations,
                    duration, prog, idx, last_t, update_mobjects,
                    has_condition, call, ops, iters, nCatch, outcome, calls, clock0 >>

\* The steps of render() with a renderer whose render always returns.
Next ==
    \/ setup
    \/ Tick
    \/ close_signal
    \/ \E anims \in AnimationSets : play(anims)
    \/ progress_through_animations(TRUE)
    \/ play_finish(TRUE)
    \/ post_play
    \/ \E d \in 0..MaxRunTime, cond \in BOOLEAN, upd \in BOOLEAN : wait(d, cond, upd)
    \/ wait_step(TRUE)
    \/ \E c \in BOOLEAN : wait_cond(c)
    \/ wait_finish
    \/ pacer(TRUE)
    \/ construct_returns
    \/ interact(TRUE)
    \/ end_scene_early
    \/ keyboard_interrupt
    \/ tear_down(TRUE)
    \/ finish
    \/ render_rest

Spec == Init /\ [][Next]_vars

\* The renderer's render raises inside a frame advance; nothing catches it.
render_raises ==
    \/ progress_through_animations(FALSE)
    \/ play_finish(FALSE)
    \/ wait_step(FALSE)
    \/ pacer(FALSE)
    \/ interact(FALSE)
    \/ tear_down(FALSE)

NextFail == Next \/ render_raises

SpecFail == Init /\ [][NextFail]_vars

\* The wall clock keeps advancing past the observed range while a frame
\* advance waits for it (environment).
clock_catches_up ==
    /\ pc = "pacer"
    /\ clock - real_animation_start_time < time - virtual_animation_start_time
    /\ clock >= MaxClock
    /\ clock' = clock + 1
    /\ UNCHANGED << pc, ret, iret, time, virtual_animation_start_time,
                    real_animation_start_time, window, is_closing,
                    ended_with_interrupt, skip_animations, fps, plays, preview,
                    closedAt, save_last_frame, animations, duration, prog, idx,
                    last_t, update_mobjects, has_condition, call, ops, iters,
                    nCatch, time0, clock0, outcome, log, frame, nFrames,
                    calls >>

\* time.perf_counter() returns a larger value than before.
perf_counter_advances == Tick \/ clock_catches_up

NextLive == Next \/ clock_catches_up

\* The states after Manager.__init__ with a window bound (config.preview), in
\* the configuration that reaches every call site of _update_frame: the
\* frame forced after a skipped play and the last frame of the teardown
\* included.
InitLive == Init /\ preview /\ save_last_frame /\ skip_animations

\* render() with a wall clock that keeps advancing and a thread that keeps
\* running: the pacer check of a frame advance is made and the clock it reads
\* does not stall.
SpecLive ==
    /\ InitLive
    /\ [][NextLive]_vars
    /\ WF_vars(perf_counter_advances)
    /\ WF_vars(pacer(TRUE))

\* ------------------------------------------------------------ properties
\* ceil(a / b) and floor(a / b) for a >= 0, b > 0, by their defining
\* inequalities.
CeilOf(a, b) == CHOOSE k \in 0..a : k * b >= a /\ (k - 1) * b < a
FloorOf(a, b) == CHOOSE k \in 0..a : k * b <= a /\ (k + 1) * b > a

\* The largest of the run times r_1..r_n of a non-empty animation set.
LargestRunTime(anims) ==
    CHOOSE r \in { anims[i] : i \in 1..Len(anims) } :
        \A i \in 1..Len(anims) : anims[i] <= r

\* ceil(D * F) for a duration of d ticks at the current frame rate.
SampleCount(d) == CeilOf(d * fps, TicksPerSecond)

\* The calls of the segment with method op, in order.
Calls(op) == SelectSeq(log, LAMBDA e : e.op = op)

RECURSIVE SumDt(_)
SumDt(s) == IF s = << >> THEN 0 ELSE Head(s).dt + SumDt(Tail(s))

\* A play call has run its loop and is about to return.
PlayReturns == pc = "post_play" /\ call = "play"

\* The running call's progression is in use.
InLoop ==
    \/ pc \in {"play_loop", "wait_loop", "wait_cond", "post_play"}
    \/ pc = "pacer" /\ ret \in {"play_loop", "wait_cond", "post_play"}

\* The duration the running call's time progression was computed for.
LoopDuration ==
    IF call = "play" THEN LargestRunTime(animations) ELSE duration

\* C1, as stated: when a play call over a non-empty animation set returns,
\* virtual time has grown by max(r_i) rounded down to a multiple of 1/F.
C1_AdvanceIsRunTimeRoundedDown ==
    PlayReturns =>
        (time - time0) * fps
            = FloorOf(LargestRunTime(animations) * fps, TicksPerSecond)
                * TicksPerSecond

\* C1, amended: when a play call over a non-empty animation set returns,
\* virtual time has grown by the last sample of the time progression, that
\* is by (ceil(max(r_i) * F) - 1) / F, and by 0 when max(r_i) = 0; this is
\* max(r_i) rounded down to a multiple of 1/F exactly when max(r_i) is not
\* itself a positive multiple of 1/F.  Window or no window.
C1_AdvanceIsLastSample ==
    PlayReturns =>
        LET D == LargestRunTime(animations)
            advance == time - time0
        IN /\ D = 0 => advance = 0
           /\ D > 0 => advance * fps = (SampleCount(D) - 1) * TicksPerSecond
           /\ (D = 0 \/ (D * fps) % TicksPerSecond # 0)
                <=> advance * fps
                      = FloorOf(D * fps, TicksPerSecond) * TicksPerSecond

C1_Witness ==
    /\ PlayReturns
    /\ window
    /\ Len(animations) = 2
    /\ animations[1] < animations[2]
    /\ time - time0 > 0
    /\ time0 > 0

\* C2: the time progression for a duration D at frame rate F has ceil(D * F)
\* samples (none when D = 0), starts at 0, is strictly increasing with
\* consecutive samples exactly 1/F apart, and ends strictly below D.
C2_TimeProgression ==
    InLoop =>
        LET D == LoopDuration
            n == Len(prog)
        IN /\ n = SampleCount(D)
           /\ D = 0 => n = 0
           /\ n > 0 => prog[1] = 0 /\ prog[n] < D
           /\ \A i \in 1..(n - 1) :
                /\ prog[i] < prog[i + 1]
                /\ (prog[i + 1] - prog[i]) * fps = TicksPerSecond

C2_Witness ==
    /\ InLoop
    /\ Len(prog) >= 2
    /\ (LoopDuration * fps) % TicksPerSecond # 0

\* The construct hook issued one play call and was then interrupted.
InterruptedAfterOnePlay ==
    outcome = "interrupt" /\ ops = 1 /\ call = "play"

\* C3: when the construct hook is interrupted after one play call, the
\* interrupt does not leave render(), the file writer's ended_with_interrupt
\* is true, and scene.tear_down and file_writer.finish have each run exactly
\* once when render() returns (and never more than once before).
C3_InterruptAfterPlay ==
    InterruptedAfterOnePlay =>
        /\ pc \in {"tear_down", "pacer", "finish", "second_pass", "done"}
        /\ pc = "pacer" => ret = "finish"
        /\ ended_with_interrupt
        /\ calls.tear_down <= 1 /\ calls.finish <= 1
        /\ pc = "done" => calls.tear_down = 1 /\ calls.finish = 1

C3_Witness ==
    /\ InterruptedAfterOnePlay
    /\ pc = "done"
    /\ time > 0
    /\ calls.close = 1

\* The construct hook stopped early before any play or wait call.
EarlyStopAtOnce == outcome = "early" /\ ops = 0

\* C4: when the construct hook stops early before any play or wait call,
\* render() goes on to teardown and returns, no animation is updated, the
\* interactive loop advances no frame even with a window bound,
\* ended_with_interrupt stays false and the teardown has run when render()
\* returns.
C4_EarlyStop ==
    EarlyStopAtOnce =>
        /\ pc \in {"tear_down", "pacer", "finish", "second_pass", "done"}
        /\ pc = "pacer" => ret = "finish"
        /\ iters = 0
        /\ Calls("update_animations") = << >>
        /\ \A i \in 1..Len(log) : log[i].src \in {"tear_down"}
        /\ time = 0
        /\ ~ended_with_interrupt
        /\ pc = "done" => calls.tear_down = 1 /\ calls.finish = 1

C4_Witness ==
    /\ EarlyStopAtOnce
    /\ pc = "done"
    /\ preview
    /\ calls.close = 1

\* The calls of a complete teardown, in order.
TearDownCalls ==
    << Ev("tear_down", "tear_down", 0, 0) >>
      \o (IF save_last_frame
          THEN << Ev("update_frame", "tear_down", 0, 0) >> ELSE << >>)
      \o << Ev("finish", "tear_down", 0, 0) >>
      \o (IF preview THEN << Ev("close", "tear_down", 0, 0) >> ELSE << >>)

\* C5: whether the construct hook completed, stopped early or was
\* interrupted, no teardown step runs twice, and when render() returns the
\* teardown has run once, in the order scene tear_down, the save-last-frame
\* frame advance if configured, file writer finish, window close; the
\* Manager then holds no window and a bound window was closed exactly once.
C5_TearDownOnceInOrder ==
    /\ calls.tear_down <= 1 /\ calls.finish <= 1 /\ calls.close <= 1
    /\ calls.finish <= calls.tear_down /\ calls.close <= calls.finish
    /\ pc = "done" =>
        /\ outcome \in {"normal", "early", "interrupt"}
        /\ log = TearDownCalls
        /\ calls = [tear_down |-> 1, finish |-> 1,
                    close |-> IF preview THEN 1 ELSE 0]
        /\ ~window

C5_Witness ==
    /\ pc = "done"
    /\ preview
    /\ save_last_frame
    /\ outcome = "normal"
    /\ iters > 0
    /\ ops > 0

\* C6: virtual time starts at 0, never decreases, and changes only by a
\* frame advance, which adds exactly its dt (and hands the same dt to the
\* scene's object update).
C6_TimeOnlyByFrameAdvance ==
    /\ time = 0
    /\ [][ /\ time' >= time
           /\ time' # time =>
                /\ frame' # << >>
                /\ frame'[1] = Ev("time", frame'[1].src, 0, time' - time)
                /\ frame'[2] = Ev("update_mobjects", frame'[1].src, 0,
                                  time' - time)
                /\ nFrames' = nFrames + 1 ]_vars

C6_Witness ==
    /\ pc = "done"
    /\ time > 0
    /\ ops = 2
    /\ iters > 0

\* C7: a play call calls update_animations once per sample of the time
\* progression for max(r_i), the k-th call with t = (k - 1) / F and with dt
\* the distance to the previous sample (0 for the first), so the dt sum up to
\* the last t; each such call is directly followed by a frame advance with
\* the same dt; when the call returns every sample has been processed.
C7_UpdatePerSample ==
    (call = "play" /\ InLoop) =>
        LET ua == Calls("update_animations")
            fr == SelectSeq(log, LAMBDA e : e.op = "update_frame"
                                            /\ e.src = "play")
        IN /\ Len(ua) = idx - 1
           /\ Len(fr) = Len(ua)
           /\ \A k \in 1..Len(ua) :
                /\ ua[k].t * fps = (k - 1) * TicksPerSecond
                /\ ua[k].dt = ua[k].t - (IF k = 1 THEN 0 ELSE ua[k - 1].t)
                /\ k > 1 => ua[k].t > ua[k - 1].t
                /\ fr[k].dt = ua[k].dt
           /\ \A i \in 1..Len(log) :
                log[i].op = "update_animations" =>
                    /\ i < Len(log)
                    /\ log[i + 1] = Ev("update_frame", "play", 0, log[i].dt)
           /\ ua # << >> => SumDt(ua) = ua[Len(ua)].t
           /\ pc = "post_play" =>
                Len(ua) = SampleCount(LargestRunTime(animations))

C7_Witness ==
    /\ PlayReturns
    /\ Len(Calls("update_animations")) = 3
    /\ window
    /\ nFrames > 3

\* In the interactive loop of the first pass.
Interacting ==
    pc = "interact" \/ (pc = "pacer" /\ ret = "interact")

\* C8, as stated: the frame advances made during the interactive loop are
\* exactly its n iterations.
C8_NoFrameBeyondIterations ==
    Interacting => nFrames = iters

\* C8, amended: once the close signal is true the loop begins no further
\* iteration, so it runs exactly the n iterations begun before the signal;
\* the loop itself calls the frame advance exactly n times, each with
\* dt = 1/F, and virtual time grows by n/F.  The pacer inside a frame advance
\* may add zero-delta catch-up frames, so the loop sees n or more frame
\* advances.
C8_InteractiveIterations ==
    Interacting =>
        LET fr == Calls("update_frame")
        IN /\ is_closing => iters = closedAt
           /\ Len(fr) = iters
           /\ \A k \in 1..Len(fr) :
                fr[k].src = "interact" /\ fr[k].dt * fps = TicksPerSecond
           /\ (time - time0) * fps = iters * TicksPerSecond
           /\ nFrames >= iters

C8_Witness ==
    /\ pc = "interact"
    /\ is_closing
    /\ closedAt = 2
    /\ iters = 2
    /\ nFrames > 2

\* Teardown has made its frame advance, if any; the construct hook issued
\* no play call.
TornDownWithoutPlay ==
    pc \in {"finish", "second_pass", "done"} /\ plays = 0

UpdatingWait == call = "wait" /\ update_mobjects /\ InLoop

\* C10: in a wait call with per-frame updates the condition is evaluated
\* after every frame advance of the loop; the first time it is true the
\* loop ends, no further frame is advanced and post_play is called; without
\* a stop_condition the loop advances a frame for every one of the
\* ceil(duration * F) samples.
C10_StopCondition ==
    /\ UpdatingWait =>
        LET fr == Calls("update_frame")
            cd == Calls("condition")
            evaluating == pc = "wait_cond" \/ pc = "pacer"
        IN /\ Len(fr) = idx - 1
           /\ Len(cd) = (IF evaluating THEN Len(fr) - 1 ELSE Len(fr))
           /\ \A i \in 3..Len(log) :
                log[i].op = (IF i % 2 = 1 THEN "update_frame" ELSE "condition")
           /\ \A k \in 1..Len(cd) :
                /\ cd[k].src = (IF has_condition THEN "stop_condition"
                                ELSE "default")
                /\ cd[k].t = 1 => k = Len(cd) /\ pc = "post_play"
           /\ pc = "post_play" =>
                \/ cd # << >> /\ cd[Len(cd)].t = 1
                \/ Len(fr) = SampleCount(duration)
           /\ ~has_condition => \A k \in 1..Len(cd) : cd[k].t = 0
    /\ (pc = "construct" /\ call = "wait") =>
            log = << Ev("post_play", "wait", 0, 0) >>

C10_Witness ==
    /\ UpdatingWait
    /\ pc = "post_play"
    /\ has_condition
    /\ window
    /\ Len(Calls("update_frame")) = 2
    /\ Len(prog) = 3

\* A wait call whose scene reports that nothing needs per-frame updating.
IdleWait == call = "wait" /\ ~update_mobjects /\ InLoop

\* C11: in a wait call whose scene reports that no object needs per-frame
\* updating no frame is advanced: virtual time is unchanged, the scene's
\* objects are not updated, no snapshot is taken, the condition is never
\* evaluated, and render_previous is called once per sample of the time
\* progression for the duration, ceil(duration * F) times when the call
\* returns.
C11_IdleWait ==
    IdleWait =>
        /\ pc \in {"wait_loop", "post_play"}
        /\ time = time0
        /\ nFrames = 0
        /\ frame = << >>
        /\ log = << Ev("pre_play", "wait", 0, 0),
                    Ev("should_update_mobjects", "wait", 0, 0) >>
                   \o [k \in 1..(idx - 1)
                         |-> Ev("render_previous", "wait", 0, 0)]
        /\ Calls("condition") = << >>
        /\ pc = "post_play" =>
             Len(Calls("render_previous")) = SampleCount(duration)

C11_Witness ==
    /\ IdleWait
    /\ pc = "post_play"
    /\ has_condition
    /\ window
    /\ time > 0
    /\ Len(Calls("render_previous")) = 3

\* The real and the virtual time elapsed since the pacer's anchors.
RealElapsed == clock - real_animation_start_time
VirtualElapsed == time - virtual_animation_start_time

\* A window is bound and render() stands between two operations: after
\* _setup, outside every frame advance, before the window is released.
BetweenOperations ==
    /\ window
    /\ pc \in {"construct", "play_loop", "post_play", "wait_loop", "wait_cond",
               "interact", "tear_down", "finish"}

PacedCallReturns == window /\ pc = "post_play" /\ nFrames > 0

\* C13: with a window bound, when a play call or a wait call that advanced
\* frames returns, the real time elapsed since the call began is at least the
\* virtual time the call advanced.
C13_CallPaced ==
    PacedCallReturns => clock - clock0 >= time - time0

\* The part of C13 the code keeps: a play call, which re-anchors the pacer as
\* it begins, returns no earlier than the virtual time it advanced.
C13_PlayPaced ==
    (PacedCallReturns /\ call = "play") =>
        /\ real_animation_start_time = clock0
        /\ virtual_animation_start_time = time0
        /\ clock - clock0 >= time - time0

\* A wait call returns ahead of the wall clock.
C13_WaitAhead ==
    /\ PacedCallReturns
    /\ call = "wait"
    /\ clock - clock0 < time - time0

\* The steps of one frame advance in the order C14 gives them, for a frame
\* advance with argument dt that takes snapshot id, with (w) or without a
\* window.
FrameOrder(src, dt, id, w) ==
    << Ev("time", src, 0, dt), Ev("update_mobjects", src, 0, dt) >>
      \o (IF w THEN << Ev("clear", src, 0, 0) >> ELSE << >>)
      \o << Ev("get_state", src, id, 0), Ev("render", src, id, 0) >>
      \o (IF w THEN << Ev("swap_buffers", src, 0, 0) >> ELSE << >>)

\* C14: every frame advance, zero-delta catch-up frames included, adds dt to
\* virtual time, updates the scene's objects with dt, clears the window (only
\* if one is bound), takes one snapshot, renders that snapshot once, swaps
\* the window's buffers (only if bound) and then makes the pacer check (only
\* if bound); the snapshot is taken after the update and before the render of
\* its frame, it is a new one for every frame, and a catch-up frame has
\* dt = 0.
C14_FrameOrder ==
    [][ ((nFrames' # nFrames \/ frame' # frame) /\ frame' # << >>) =>
          LET src == frame'[1].src
              dt == frame'[1].dt
          IN /\ frame' = FrameOrder(src, dt, nFrames', window)
             /\ time' = time + dt
             /\ (pc' = "pacer") <=> window
             /\ src = "pacer" <=> pc = "pacer"
             /\ src = "pacer" => dt = 0
             /\ nFrames' = (IF src = "tear_down" THEN 1 ELSE nFrames + 1)
             /\ Len(SelectSeq(frame', LAMBDA e : e.op = "render")) = 1
      ]_vars

C14_Witness ==
    /\ pc = "pacer"
    /\ nCatch = 2
    /\ frame = FrameOrder("pacer", 0, nFrames, TRUE)
    /\ ret = "wait_cond"
    /\ nFrames = 4

\* The calls of a play call that ran n samples, up to its post_play, in the
\* order C15 gives them: w is whether a window is bound, skip whether the
\* scene skips animations.
RECURSIVE SamplePairs(_)
SamplePairs(n) ==
    IF n = 0 THEN << >>
    ELSE SamplePairs(n - 1) \o << "update_animations", "update_frame" >>

PlayOrder(n, w, skip) ==
    << "pre_play" >>
      \o (IF w THEN << "perf_counter" >> ELSE << >>)
      \o << "begin_animations" >>
      \o SamplePairs(n)
      \o << "finish_animations" >>
      \o (IF skip /\ w THEN << "update_frame" >> ELSE << >>)

\* C15: a play call that completes calls pre_play, begin_animations, the
\* update_animations / frame advances of its samples, finish_animations and
\* post_play once each in that order; the pacer's anchors are set to (now,
\* current virtual time) between pre_play and begin_animations exactly when a
\* window is bound and are left alone otherwise; exactly one zero-delta frame
\* advance is forced between finish_animations and post_play if and only if
\* skip_animations is set and a window is bound, and no catch-up frame
\* follows it.
C15_PlayHooks ==
    /\ [](PlayReturns =>
            LET forced == SelectSeq(log, LAMBDA e : e.src = "skip")
            IN /\ [i \in 1..Len(log) |-> log[i].op]
                    = PlayOrder(Len(prog), window, skip_animations)
               /\ forced = (IF skip_animations /\ window
                            THEN << Ev("update_frame", "skip", 0, 0) >>
                            ELSE << >>)
               /\ forced # << >> =>
                    /\ log[Len(log)] = forced[1]
                    /\ frame = FrameOrder("skip", 0, nFrames, TRUE)
               /\ window => /\ virtual_animation_start_time = time0
                            /\ real_animation_start_time = clock0)
    /\ []((pc = "construct" /\ call = "play") =>
            log = << Ev("post_play", "play", 0, 0) >>)
    /\ [][ (pc = "construct" /\ call' = "play" /\ ops' = ops + 1) =>
             IF window
             THEN /\ real_animation_start_time' = clock
                  /\ virtual_animation_start_time' = time
             ELSE UNCHANGED << real_animation_start_time,
                               virtual_animation_start_time >> ]_vars
    /\ [][ PlayReturns => (pc' = "construct" \/ pc' = "tear_down" \/ pc' = pc)
         ]_vars

C15_Witness ==
    /\ pc = "construct"
    /\ call = "play"
    /\ log = << Ev("post_play", "play", 0, 0) >>
    /\ window
    /\ skip_animations
    /\ ops = 2
    /\ plays = 2
    /\ virtual_animation_start_time > 0
    /\ real_animation_start_time > 0

\* The frame advances the running play or wait loop has made itself.
LoopFrames ==
    SelectSeq(log, LAMBDA e : e.op = "update_frame" /\ e.src \in {"play", "wait"})

\* C16: with no window bound the pacer never runs and never issues a
\* catch-up frame, and the frame advances of render() are fixed by the
\* construct hook's calls and the frame rate alone, whatever the wall clock
\* does: a play or an updating wait has advanced exactly one frame per sample
\* it has processed, the k-th with dt the distance from sample k - 1 to
\* sample k, virtual time is the time at the start of the call plus the last
\* sample processed, a play that returns has rendered exactly ceil(max(r_i)
\* * F) frames, and the teardown renders one frame or none.
C16_BatchDeterministic ==
    ~preview =>
        /\ ~window
        /\ pc # "pacer" /\ ret = "none" /\ nCatch = 0
        /\ iters = 0
        /\ \A i \in 1..Len(frame) : frame[i].src # "pacer"
        /\ (InLoop /\ (call = "play" \/ update_mobjects)) =>
             /\ nFrames = idx - 1
             /\ Len(LoopFrames) = nFrames
             /\ \A k \in 1..nFrames :
                  LoopFrames[k].dt
                    = prog[k] - (IF k = 1 THEN 0 ELSE prog[k - 1])
             /\ time = time0 + (IF idx = 1 THEN 0 ELSE prog[idx - 1])
             /\ nFrames > 0 =>
                  frame = FrameOrder(call, LoopFrames[nFrames].dt, nFrames,
                                     FALSE)
        /\ PlayReturns => nFrames = SampleCount(LargestRunTime(animations))
        /\ pc \in {"finish", "second_pass", "done"} =>
             nFrames = (IF save_last_frame THEN 1 ELSE 0)

C16_Witness ==
    /\ ~preview
    /\ PlayReturns
    /\ nFrames = 3
    /\ time - time0 = 2
    /\ time0 > 0
    /\ clock = real_animation_start_time
    /\ clock > 0

\* C17: with a window bound and a wall clock that keeps advancing, every
\* frame advance ends after finitely many zero-delta catch-up frames; a
\* catch-up frame is issued only when the real time elapsed is strictly less
\* than the virtual time elapsed; and while the real time elapsed is less
\* than the virtual time elapsed and the wall clock does not move, the frame
\* advance does not return (only an interrupt ends it).
C17_PacerTerminates ==
    /\ (pc = "pacer") ~> (pc # "pacer")
    /\ [][ (pc = "pacer" /\ nFrames' # nFrames /\ pc' = "pacer")
             => /\ RealElapsed < VirtualElapsed
                /\ frame' = FrameOrder("pacer", 0, nFrames', TRUE)
                /\ time' = time ]_vars
    /\ [][ (pc = "pacer" /\ RealElapsed < VirtualElapsed /\ clock' = clock)
             => (pc' = "pacer" \/ (pc' = "tear_down" /\ ended_with_interrupt'))
         ]_vars
    /\ [](pc = "pacer" => window)

C17_Witness ==
    /\ pc = "pacer"
    /\ nCatch = MaxCatchUp
    /\ clock > MaxClock
    /\ RealElapsed = VirtualElapsed
    /\ ret = "interact"

\* file_writer.finish() has been called.
Finished == calls.finish >= 1

\* C18: once the file writer's finish has been called no frame is rendered
\* and no window operation happens: the interactive loop runs only before
\* the teardown, the window handle is released with finish, and the _interact
\* call render() makes after the first pass returns at once without
\* advancing a frame.
C18_NothingAfterFinish ==
    /\ [](Finished =>
            /\ pc \in {"second_pass", "done"}
            /\ ~window
            /\ ret = "none" /\ iret = "none" /\ nCatch = 0
            /\ \A i \in 1..Len(log) : \A j \in 1..(i - 1) :
                 log[j].op = "finish" => log[i].op = "close")
    /\ [](Interacting => (calls.tear_down = 0 /\ window))
    /\ [][ Finished =>
             /\ frame' = frame /\ nFrames' = nFrames /\ time' = time
             /\ iters' = iters /\ log' = log
             /\ (pc' = pc \/ (pc = "second_pass" /\ pc' = "done")) ]_vars

C18_Witness ==
    /\ pc = "done"
    /\ Finished
    /\ preview
    /\ iters = MaxInteract
    /\ ~is_closing
    /\ save_last_frame
    /\ nFrames > 1

\* render() stands inside the try block of _render_first_pass.
InsideTry == InTry(pc) \/ (pc = "pacer" /\ InTry(ret))

\* C19: the file writer's ended_with_interrupt is set exactly by an external
\* interrupt raised during the construct hook or during the interactive loop
\* that follows it: it is true whenever the construct hook was interrupted,
\* it becomes true only on a step that leaves the try block for the
\* teardown, leaving the interactive loop without a close signal sets it, and
\* an early stop, a window close and a normal completion never set it.
C19_InterruptFlag ==
    /\ [](outcome = "interrupt" => ended_with_interrupt)
    /\ [](outcome \in {"running", "early"} => ~ended_with_interrupt)
    /\ []((outcome = "normal" /\ ~preview) => ~ended_with_interrupt)
    /\ [](ended_with_interrupt =>
            \/ pc \in {"tear_down", "finish", "second_pass", "done"}
            \/ pc = "pacer" /\ ret = "finish")
    /\ [][ ended_with_interrupt' # ended_with_interrupt =>
             /\ InsideTry
             /\ calls.tear_down = 0
             /\ ended_with_interrupt'
             /\ pc' = "tear_down" ]_vars
    /\ [][ (Interacting /\ ~is_closing /\ pc' = "tear_down")
             => ended_with_interrupt' ]_vars
    /\ [][ (is_closing' # is_closing \/ (pc = "construct" /\ pc' = "tear_down"
                                          /\ outcome' # "interrupt"))
             => ended_with_interrupt' = ended_with_interrupt ]_vars

C19_Witness ==
    /\ pc = "done"
    /\ ended_with_interrupt
    /\ outcome = "normal"
    /\ iters = 1
    /\ ~is_closing
    /\ ops = 1

\* An error other than an early stop or an interrupt has left render().
Raised == pc = "raised"

\* C20: an error raised inside the construct hook or the interactive loop
\* that is neither an early stop nor an interrupt (the renderer failing in a
\* frame advance, or a play call with no animation, which fails after
\* pre_play and begin_animations and before any frame advance) leaves
\* render() at once and for good: no teardown step runs (scene tear_down,
\* file writer finish and window close are not called), the window handle
\* stays bound and ended_with_interrupt stays false.
C20_ErrorPropagates ==
    /\ [](outcome = "error" <=> Raised)
    /\ [](Raised => /\ calls.finish = 0 /\ calls.close = 0
                    /\ window = preview
                    /\ ret = "none")
    /\ []((Raised /\ log[1].op = "pre_play") =>
            /\ [i \in 1..Len(log) |-> log[i].op]
                 = << "pre_play" >>
                     \o (IF window THEN << "perf_counter" >> ELSE << >>)
                     \o << "begin_animations" >>
            /\ animations = << >>
            /\ nFrames = 0 /\ frame = << >>
            /\ time = time0)
    /\ [][ (InsideTry /\ ~Raised' /\ pc' = "tear_down") =>
             outcome' \in {"normal", "early", "interrupt"} ]_vars
    /\ [][ (InsideTry /\ Raised') =>
             /\ calls' = [tear_down |-> 0, finish |-> 0, close |-> 0]
             /\ window' = preview
             /\ ~ended_with_interrupt' ]_vars
    /\ [][ Raised => (Raised' /\ calls' = calls /\ window' = window) ]_vars

C20_Witness ==
    /\ Raised
    /\ window
    /\ log = << Ev("error", "pacer", 0, 0) >>
    /\ iters = 2
    /\ calls.tear_down = 0
    /\ plays = 1

====
